---- MODULE Spec2Model ----
(***************************************************************************)
(* Playback session of the osu! song browser (osu_mp3_browser/ui.py):      *)
(* the Tk main thread's handlers (_play_path, toggle_pause, seek_to,       *)
(* skip_track, stop, update_progress, _on_track_end), the pygame mixer     *)
(* they drive through osu_mp3_browser/audio.py, the Tk after() queue, the  *)
(* wall clock behind the manual position clock, the listening stats, and   *)
(* the playlist runner thread of _play_playlist_tracks; and the library:   *)
(* scan_and_populate threads, _add_discovered_file, the metadata           *)
(* dictionary, and the cache file of _save_cache and _load_cache.          *)
(***************************************************************************)
EXTENDS Integers, Sequences, FiniteSets, TLC

\* ---------------------------------------------------------------- bounds
NPaths == 2          \* audio files on disk, named 1..NPaths
MaxTime == 2         \* wall-clock ticks that may pass
MaxTotal == 1        \* longest known track duration, in ticks
MaxPlays == 2        \* cap on the sum of all play_count values
MaxListened == 2     \* cap on any seconds_listened value
MaxTrackEnds == 1    \* cap on pending after(100, _on_track_end) callbacks
MaxStarts == 1       \* cap on pending after(0, _start_on_main) callbacks
NRunners == 1        \* playlist runner threads that may be alive at once
MaxRunners == 2      \* the same where the claim is about several runners

Paths == 1..NPaths
NoPath == 0          \* Python None in a path-valued field
None == -1           \* Python None in a time-valued field
Epoch == MaxTotal + 1   \* time.time() at start-up: far larger than any position

VARIABLES
    ui,             \* fields of the OsuMP3Browser object
    mixer,          \* pygame.mixer.music as seen through audio.py
    tkq,            \* callbacks pending in the Tk after() queue
    hist,           \* history of the session, for the accounting claims
    now,            \* time.time()
    runner,         \* playlist runner threads (_play_playlist_tracks._runner)
    all_mp3_paths,  \* the library list
    mp3_paths,      \* the visible list
    search,         \* search_var
    disk,           \* the Songs directory, the cache file, and whether mutagen is
                    \* installed
    lib,            \* _metadata, _seen_paths, min_duration_var, the rows of song_view, and
                    \* for the history the fingerprints completed scans read at
    scans           \* scan_and_populate threads and the callbacks they queued

vars == <<ui, mixer, tkq, hist, now, runner, all_mp3_paths, mp3_paths, search,
          disk, lib, scans>>

\* ---------------------------------------------------------------- helpers
Max(a, b) == IF a >= b THEN a ELSE b

\* truth value of a float-or-None in a Python condition
Truthy(t) == t # None /\ t # 0

Range(s) == {s[i] : i \in 1..Len(s)}

RECURSIVE SeqSum(_)
SeqSum(s) == IF s = <<>> THEN 0 ELSE Head(s) + SeqSum(Tail(s))

\* metadata duration of a file (0: unknown and not measurable), as
\* _metadata.get(str(path), {}).get('duration') or ensure_duration(...) yields
Duration(p) == IF p % 2 = 1 THEN MaxTotal ELSE 0

\* folder title of a file: a shared character 0 followed by its own character
Title(p) == <<0, p>>

\* q in s, for strings as sequences
IsSubstring(q, s) ==
    \E i \in 0..(Len(s) - Len(q)) : \A j \in 1..Len(q) : s[i + j] = q[j]

Queries == {<<>>} \cup {<<c>> : c \in 0..NPaths}

\* the world a handler reads and writes when it starts
World == [ui |-> ui, mixer |-> mixer, tkq |-> tkq,
          hist |-> [hist EXCEPT !.called = FALSE, !.ended = None]]

\* which of the three seek methods of seek_to is the first to succeed, if any
SeekOutcomes == {"set_pos", "play_start", "restart", "fail"}

NoStat == [play_count |-> 0, seconds_listened |-> 0, last_played |-> 0]

\* ---------------------------------------------------------------- audio.py
\* every wrapper that reaches pygame.mixer.music counts as a transport call
is_audio_initialized(w) == w.mixer.init

Transport(w, st, track) ==
    [w EXCEPT !.mixer.st = st, !.mixer.track = track,
              !.hist.called = TRUE, !.hist.natural = FALSE]

audio_stop(w) ==
    IF ~is_audio_initialized(w) THEN w
    ELSE Transport(w, "idle", w.mixer.track)

audio_pause(w) ==
    IF ~is_audio_initialized(w) THEN w
    ELSE Transport(w, IF w.mixer.st = "playing" THEN "paused" ELSE w.mixer.st, w.mixer.track)

\* ok: pygame.mixer.music.unpause() did not raise
unpause_result(w, ok) == is_audio_initialized(w) /\ ok

audio_unpause(w, ok) ==
    IF ~is_audio_initialized(w) THEN w
    ELSE Transport(w, IF ok /\ w.mixer.st = "paused" THEN "playing" ELSE w.mixer.st,
                   w.mixer.track)

\* ok: neither load() nor play() raised
load_and_play_result(w, path, ok) == is_audio_initialized(w) /\ ok /\ path # NoPath

load_and_play(w, path, ok) ==
    IF ~is_audio_initialized(w) THEN w
    ELSE IF ok /\ path # NoPath THEN Transport(w, "playing", path)
    ELSE Transport(w, "idle", w.mixer.track)

\* pygame.mixer.music.get_busy(): false while paused (pygame 2.0.1 and later)
is_busy(w) == is_audio_initialized(w) /\ w.mixer.st = "playing"

seek_set_pos_result(w, ok) == is_audio_initialized(w) /\ ok /\ w.mixer.track # NoPath

seek_set_pos(w, ok) ==
    IF ~is_audio_initialized(w) THEN w
    ELSE Transport(w, IF ok /\ w.mixer.track # NoPath THEN "playing" ELSE "idle",
                   w.mixer.track)

seek_play_start_result(w, ok) == is_audio_initialized(w) /\ ok /\ w.mixer.track # NoPath

seek_play_start(w, ok) ==
    IF ~is_audio_initialized(w) THEN w
    ELSE Transport(w, IF ok /\ w.mixer.track # NoPath THEN "playing" ELSE "idle",
                   w.mixer.track)

restart_playback(w, path, ok) ==
    IF ~is_audio_initialized(w) THEN w
    ELSE IF ok /\ path # NoPath THEN Transport(w, "playing", path)
    ELSE Transport(w, "idle", w.mixer.track)

\* ---------------------------------------------------------------- ui.py
\* the position the manual clock gives (update_progress, lines 2730-2736;
\* _accumulate_current_listen_time, lines 2770-2775)
ElapsedOf(u) ==
    IF u.start_time # None
    THEN IF u.paused /\ Truthy(u.pause_time)
         THEN (u.pause_time - u.start_time) + u.paused_offset
         ELSE (now - u.start_time) + u.paused_offset
    ELSE 0

\* history: the play session of the current path, if any, ends here; ended keeps
\* how many times its clock was added to the stats
end_session(w) ==
    [w EXCEPT !.hist.ended = IF w.ui.playing_path # NoPath THEN w.hist.sess_acc ELSE @,
              !.hist.sess_acc = 0,
              !.hist.listened = 0]

_accumulate_current_listen_time(w, finalize) ==
    LET path == w.ui.playing_path
        elapsed == ElapsedOf(w.ui)
        amount == Max(0, elapsed)
        armed == w.ui.start_time # None
        w1 == [w EXCEPT !.ui.stats[path].seconds_listened = @ + amount,
                        !.hist.sess_acc = IF armed THEN (IF @ < 2 THEN @ + 1 ELSE 2) ELSE @,
                        !.hist.over = @ \/ (amount > w.hist.listened)]
    IN  IF path = NoPath THEN w
        ELSE IF finalize
             THEN [w1 EXCEPT !.ui.start_time = None,
                             !.ui.pause_time = None,
                             !.ui.paused_offset = 0,
                             !.hist.listened = 0]
             ELSE w1

update_progress(w) ==
    IF w.ui.playing_path = NoPath \/ ~is_audio_initialized(w) THEN w
    ELSE IF ~is_busy(w) /\ ~w.ui.paused
         THEN IF w.ui.playlist_runner_active
              THEN [w EXCEPT !.ui.progress_after_id = FALSE]
              ELSE LET w1 == [w EXCEPT !.ui.progress_after_id = FALSE]
                       w2 == _accumulate_current_listen_time(w1, TRUE)
                   IN  [w2 EXCEPT !.tkq.track_end = @ + 1,
                                  !.hist.detected = w.ui.playing_path]
         ELSE [w EXCEPT !.ui.progress_after_id = TRUE]

_play_path(w, path, from_playlist, o) ==
    LET w1 == IF ~from_playlist
              THEN [w EXCEPT !.ui.playlist_cancelled = TRUE,
                             !.ui.playlist_runner_active = FALSE]
              ELSE w
        w2 == _accumulate_current_listen_time(w1, TRUE)
        w3 == load_and_play(w2, path, o.load)
        w4 == end_session(w3)
        w5 == [w4 EXCEPT !.ui.playing_path = path,
                         !.ui.start_time = now,
                         !.ui.pause_time = None,
                         !.ui.paused_offset = 0,
                         !.ui.stats[path].play_count = @ + 1,
                         !.ui.stats[path].last_played = now,
                         !.ui.progress_after_id = FALSE]
        w6 == update_progress(w5)
    IN  IF ~load_and_play_result(w2, path, o.load) THEN w3
        ELSE [w6 EXCEPT !.ui.paused = FALSE, !.hist.skip_fresh = FALSE]

seek_to(w, pos_sec, o) ==
    LET path == w.ui.playing_path
        total == Duration(path)
        pos == IF total # 0 /\ pos_sec > total THEN total ELSE pos_sec
        w1 == seek_set_pos(w, o.seek = "set_pos")
        s1 == seek_set_pos_result(w, o.seek = "set_pos")
        w2 == IF ~s1 THEN seek_play_start(w1, o.seek = "play_start") ELSE w1
        s2 == s1 \/ seek_play_start_result(w1, o.seek = "play_start")
        w3 == IF ~s2 THEN restart_playback(w2, path, o.seek = "restart") ELSE w2
        w4 == [w3 EXCEPT !.ui.start_time = now - pos,
                         !.ui.pause_time = None,
                         !.ui.paused_offset = 0,
                         !.ui.paused = FALSE,
                         !.ui.progress_after_id = FALSE,
                         !.hist.listened = pos]
    IN  IF path = NoPath THEN w ELSE update_progress(w4)

on_progress_click(w, target, o) ==
    IF w.ui.playing_path = NoPath THEN w
    ELSE IF Duration(w.ui.playing_path) = 0 THEN w
    ELSE seek_to(w, target, o)

\* toggle_pause without the early return of lines 2116-2117
toggle_pause_unguarded(w, o) ==
    LET u == w.ui
        wp == audio_pause(w)
    IN  IF ~is_audio_initialized(w) THEN w
        ELSE IF ~u.paused
             THEN [wp EXCEPT !.ui.paused = TRUE, !.ui.pause_time = now]
             ELSE [audio_unpause(w, o.unpause) EXCEPT !.ui.paused = FALSE,
                                                      !.ui.pause_time = None]

toggle_pause(w, o) ==
    LET u == w.ui
        wp == audio_pause(w)
        w1 == audio_unpause(w, o.unpause)
        pos_sec == IF Truthy(u.start_time) /\ Truthy(u.pause_time)
                   THEN (u.pause_time - u.start_time) + u.paused_offset
                   ELSE 0
        w2 == IF ~unpause_result(w, o.unpause)
              THEN seek_to(restart_playback(w1, u.playing_path, o.reload), pos_sec, o)
              ELSE w1
        w3 == [w2 EXCEPT !.ui.paused = FALSE]
        w4 == IF Truthy(w3.ui.pause_time) /\ Truthy(w3.ui.start_time)
              THEN [w3 EXCEPT !.ui.start_time = @ + (now - w3.ui.pause_time)]
              ELSE w3
    IN  IF ~is_audio_initialized(w) THEN w
        ELSE IF u.playing_path = NoPath THEN w
        ELSE IF ~u.paused
             THEN [wp EXCEPT !.ui.paused = TRUE, !.ui.pause_time = now]
             ELSE [w4 EXCEPT !.ui.pause_time = None]

stop(w) ==
    LET w1 == audio_stop(w)
        w2 == _accumulate_current_listen_time(w1, TRUE)
        w3 == end_session(w2)
    IN  [w3 EXCEPT !.ui.playing_path = NoPath,
                   !.ui.playlist_runner_active = FALSE,
                   !.ui.start_time = None,
                   !.ui.pause_time = None,
                   !.ui.paused_offset = 0,
                   !.ui.paused = FALSE,
                   !.ui.progress_after_id = FALSE]

\* candidates that keep the current path
ShuffleCandidates_all(w) == Range(all_mp3_paths)

\* the tracks random.choice may return in shuffle mode (lines 2323-2327)
ShuffleCandidates(w) ==
    LET others == {p \in Range(all_mp3_paths) : p # w.ui.playing_path}
    IN  IF others = {} THEN Range(all_mp3_paths) ELSE others

\* index of the current path in the visible list, 0 if absent (lines 2346-2350)
VisibleIndex(path) ==
    IF \E i \in 1..Len(mp3_paths) : mp3_paths[i] = path
    THEN CHOOSE i \in 1..Len(mp3_paths) :
            mp3_paths[i] = path /\ \A j \in 1..(i - 1) : mp3_paths[j] # path
    ELSE 0

\* an advance that stays on the current row
next_index_same(cur_index) == cur_index

\* line 2355; rows count from 1 here
next_index(cur_index) == cur_index + 1

_on_track_end(w, force_next, pick, o) ==
    LET u == w.ui
        wl == end_session(restart_playback(w, u.playing_path, o.restart))
        cur_index == VisibleIndex(u.playing_path)
    IN  IF u.play_mode = "loop" /\ ~force_next
        THEN [wl EXCEPT !.ui.start_time = now,
                        !.ui.pause_time = None,
                        !.ui.paused_offset = 0,
                        !.ui.progress_after_id = TRUE]
        ELSE IF u.playing_path = NoPath THEN w
        ELSE IF u.play_mode = "shuffle"
             THEN IF all_mp3_paths = <<>> THEN w
                  ELSE _play_path(w, pick, FALSE, o)
        ELSE IF cur_index = 0 THEN stop(w)
        ELSE IF next_index(cur_index) > Len(mp3_paths) THEN stop(w)
        ELSE _play_path(w, mp3_paths[next_index(cur_index)], FALSE, o)

\* whether _on_track_end reaches random.choice
TakesShuffle(w, force_next) ==
    /\ ~(w.ui.play_mode = "loop" /\ ~force_next)
    /\ w.ui.playing_path # NoPath
    /\ w.ui.play_mode = "shuffle"
    /\ all_mp3_paths # <<>>

Picks(w, force_next) ==
    IF TakesShuffle(w, force_next) THEN ShuffleCandidates(w) ELSE {NoPath}

\* history: skip_fresh holds from a request made to the runner until the request
\* is consumed or another track is started
skip_track(w, pick, o) ==
    IF w.ui.playlist_runner_active
    THEN LET w1 == [w EXCEPT !.ui.playlist_skip_requested = TRUE,
                             !.hist.skip_fresh = TRUE]
             w2 == audio_stop(w1)
         IN  [w2 EXCEPT !.ui.progress_after_id = FALSE]
    ELSE _on_track_end([w EXCEPT !.ui.progress_after_id = FALSE], TRUE, pick, o)

cycle_play_mode(w) ==
    [w EXCEPT !.ui.play_mode = IF @ = "sequential" THEN "loop"
                               ELSE IF @ = "loop" THEN "shuffle"
                               ELSE "sequential"]

\* the visible list refresh_list builds for a query (lines 2918-2934)
Visible(q) == SelectSeq(all_mp3_paths, LAMBDA p : q = <<>> \/ IsSubstring(q, Title(p)))

\* ---------------------------------------------------------------- playlist runner
\* the tracks of the playlist shown in the playlist panel
PlaylistTracks == [i \in 1..NPaths |-> i]

random_shuffle(s) ==
    LET n == Len(s)
        bij == {f \in [1..n -> 1..n] : \A i, j \in 1..n : f[i] = f[j] => i = j}
    IN  {[i \in 1..n |-> s[f[i]]] : f \in bij}

RemoveAt(s, i) == SubSeq(s, 1, i - 1) \o SubSeq(s, i + 1, Len(s))

\* an order that never looks at start_index
make_order_from_top(tracks, start_index, first_cycle, play_mode) ==
    IF play_mode = "shuffle" THEN random_shuffle(tracks) ELSE {tracks}

\* the orders make_order may return; start_index counts from 1, 0 is None
make_order(tracks, start_index, first_cycle, play_mode) ==
    IF tracks = <<>> THEN {<<>>}
    ELSE IF play_mode = "shuffle"
         THEN IF first_cycle /\ start_index # 0 /\ start_index <= Len(tracks)
              THEN {<<tracks[start_index]>> \o rest :
                        rest \in random_shuffle(RemoveAt(tracks, start_index))}
              ELSE random_shuffle(tracks)
    ELSE IF first_cycle /\ start_index # 0 /\ start_index <= Len(tracks)
         THEN {SubSeq(tracks, start_index, Len(tracks)) \o SubSeq(tracks, 1, start_index - 1)}
         ELSE {tracks}

\* a runner thread: its position, and its locals start_index, order, the index
\* of p in order, and last_started; its tracks are PlaylistTracks
DeadRunner == [pc |-> "dead", start_index |-> 0, order |-> <<>>, idx |-> 0,
               last_started |-> NoPath]

\* threading.Thread(target=_runner).start()
_play_playlist_tracks(r, start_index) ==
    runner' = [runner EXCEPT ![r] = [DeadRunner EXCEPT !.pc = "begin",
                                                      !.start_index = start_index]]

\* ---------------------------------------------------------------- library and cache
MIN_DURATION_SECONDS == 30

\* values the user types into the minimum-duration entry
MinDurations == {MIN_DURATION_SECONDS, 60}

\* the length in seconds a decoder reports for a file; 0: none
FileDurations == {0, MIN_DURATION_SECONDS}

MaxTouch == 1        \* times a file is rewritten on disk
MaxDeleted == 1      \* files deleted
MaxScans == 2        \* scans started
NScans == 2          \* scan threads alive at once
MaxRestarts == 1     \* times the program is closed and started again

\* an entry of _metadata: has = the key is present, fp = (__mtime, __size),
\* dur = 'duration' (0: key absent)
NoMeta == [has |-> FALSE, fp |-> None, dur |-> 0]

\* folder p of the Songs directory holds a supported audio file
FileExists(p) == disk.root /\ disk.file[p].exists

\* metadata.get_mp3_metadata: 'duration' is set only when it is not 0; without
\* mutagen (HAS_MUTAGEN false) the result is {}
get_mp3_metadata(p) ==
    [has |-> TRUE, fp |-> None, dur |-> IF disk.mutagen THEN disk.file[p].dur ELSE 0]

\* {**old, **new}
merge(old, new) ==
    [has |-> TRUE,
     fp |-> IF new.fp # None THEN new.fp ELSE old.fp,
     dur |-> IF new.dur # 0 THEN new.dur ELSE old.dur]

\* metadata.ensure_duration: the stored duration if there is one, else the
\* length mutagen or else pygame.mixer.Sound reports, which is then stored;
\* returns the duration and the dictionary it leaves
ensure_duration(md, p) ==
    IF md[p].dur # 0 THEN [dur |-> md[p].dur, md |-> md]
    ELSE IF FileExists(p) /\ disk.file[p].dur # 0
    THEN [dur |-> disk.file[p].dur,
          md |-> [md EXCEPT ![p] = [has |-> TRUE, fp |-> @.fp, dur |-> disk.file[p].dur]]]
    ELSE [dur |-> 0, md |-> md]

\* a rule that also drops a file exactly as long as the minimum
too_short_or_equal(dur, min_d) == dur # 0 /\ dur <= min_d

\* `if dur and dur < min_d` (lines 1707 and 1913)
too_short(dur, min_d) == dur # 0 /\ dur < min_d

\* lines 1882-1910 for the first audio file of folder p: whether the Metadata
\* Reader is invoked, the metadata the scan holds for the file, its duration,
\* and the dictionary ensure_duration leaves
scan_file(md, p) ==
    LET cached == md[p]
        hit == cached.has /\ cached.fp = disk.file[p].fp
        meta == IF hit THEN cached
                ELSE [get_mp3_metadata(p) EXCEPT !.fp = disk.file[p].fp]
        ed == IF meta.dur # 0 THEN [dur |-> meta.dur, md |-> md]
              ELSE ensure_duration(md, p)
    IN  [read |-> ~hit, meta |-> [meta EXCEPT !.dur = ed.dur], dur |-> ed.dur,
         md |-> ed.md]

\* the row filter of _add_discovered_file and _apply_cache_to_ui
Matches(q, p) == q = <<>> \/ IsSubstring(q, Title(p))

\* lines 1595-1626: what _save_cache writes from the current lists
_save_cache ==
    [items |-> all_mp3_paths,
     meta |-> [p \in Paths |-> IF p \in Range(all_mp3_paths) THEN lib.metadata[p]
                                ELSE NoMeta]]

\* lines 1577-1591: the records _load_cache keeps
_load_cache == SelectSeq(disk.cache.items, FileExists)

\* no fingerprint for any path
NoReads == [p \in Paths |-> None]

\* a scan thread: where it stands, and for the history the fingerprints at which
\* it invoked the Metadata Reader (reads) and at which the scans that had
\* completed when it was started had done so (snap)
NoScan == [pc |-> "dead", pos |-> 0, reads |-> NoReads, snap |-> NoReads]

NoCalls == [worker |-> [r \in 1..NScans |-> NoScan], calls |-> <<>>]

\* a callback handed to the main thread; apply_results carries the history of
\* its scan
Call(fn, p, meta) == [fn |-> fn, p |-> p, meta |-> meta, reads |-> NoReads]

\* ---------------------------------------------------------------- state
InBounds(w) ==
    /\ SeqSum([p \in Paths |-> w.ui.stats[p].play_count]) <= MaxPlays
    /\ \A p \in Paths : w.ui.stats[p].seconds_listened <= MaxListened
    /\ w.tkq.track_end <= MaxTrackEnds
    /\ Len(w.tkq.starts) <= MaxStarts

\* a main-thread handler has run and left the world w
Commit(w, op) ==
    /\ InBounds(w)
    /\ ui' = w.ui
    /\ mixer' = w.mixer
    /\ tkq' = w.tkq
    /\ hist' = [w.hist EXCEPT !.op = op]

LibraryLists ==
    UNION {{s \in [1..n -> Paths] : \A i, j \in 1..n : s[i] = s[j] => i = j} : n \in 0..NPaths}

\* __init__: the session is stopped; play_mode is the default or the one
\* _load_cache finds in the cache file; the stats file is empty
Stopped ==
    /\ ui \in [playing_path : {NoPath}, paused : {FALSE},
                start_time : {None}, pause_time : {None}, paused_offset : {0},
                progress_after_id : {FALSE},
                play_mode : {"sequential", "loop", "shuffle"},
                stats : {[p \in Paths |-> NoStat]},
                playlist_runner_active : {FALSE}, playlist_cancelled : {FALSE},
                playlist_skip_requested : {FALSE}]
    /\ mixer \in [init : BOOLEAN, st : {"idle"}, track : {NoPath}]
    /\ tkq = [track_end |-> 0, starts |-> <<>>]
    /\ hist = [op |-> "init", called |-> FALSE, natural |-> FALSE, ended |-> None,
               sess_acc |-> 0, listened |-> 0, over |-> FALSE,
               skip_live |-> FALSE, detected |-> NoPath, skip_fresh |-> FALSE]
    /\ now = Epoch
    /\ search = <<>>

\* no runner thread has been started
InitSession ==
    /\ Stopped
    /\ runner = [r \in 1..NRunners |-> DeadRunner]

\* the library was loaded from a cache file that matches the files on disk
LibraryLoaded ==
    LET md == [p \in Paths |-> IF p \in Range(all_mp3_paths)
                                THEN [has |-> TRUE, fp |-> 0, dur |-> Duration(p)]
                                ELSE NoMeta]
    IN  /\ disk = [root |-> TRUE, mutagen |-> TRUE,
                   file |-> [p \in Paths |-> [exists |-> TRUE, fp |-> 0,
                                              dur |-> Duration(p)]],
                   cache |-> [items |-> all_mp3_paths, meta |-> md]]
        /\ lib = [metadata |-> md, seen |-> Range(all_mp3_paths),
                  song_view |-> mp3_paths,
                  min_duration |-> MIN_DURATION_SECONDS, notices |-> 0,
                  started |-> 0, restarts |-> 0, read_at |-> NoReads]
        /\ scans = NoCalls

\* the library holds every file, and all of it is visible
Init ==
    /\ InitSession
    /\ all_mp3_paths = [i \in 1..NPaths |-> i]
    /\ mp3_paths = all_mp3_paths
    /\ LibraryLoaded

\* the same with room for MaxRunners runner threads, the mixer working
InitRunners ==
    /\ Stopped
    /\ ui.play_mode = "sequential"
    /\ mixer.init
    /\ runner = [r \in 1..MaxRunners |-> DeadRunner]
    /\ all_mp3_paths = [i \in 1..NPaths |-> i]
    /\ mp3_paths = all_mp3_paths
    /\ LibraryLoaded

\* any library without duplicates, all of it visible
InitPolicy ==
    /\ InitSession
    /\ all_mp3_paths \in LibraryLists
    /\ mp3_paths = all_mp3_paths
    /\ LibraryLoaded

\* ---------------------------------------------------------------- backend outcomes
\* what pygame may answer to the calls a handler makes from the current state;
\* an outcome no call of the handler reads is left at its first value
LoadOutcomes == IF mixer.init THEN BOOLEAN ELSE {FALSE}

PlayOracles == [load : LoadOutcomes, restart : {TRUE}]

ToggleOracles ==
    IF mixer.init /\ ui.playing_path # NoPath /\ ui.paused
    THEN [unpause : {TRUE}, reload : {TRUE}, seek : {"set_pos"}]
         \cup [unpause : {FALSE}, reload : BOOLEAN, seek : SeekOutcomes]
    ELSE [unpause : {TRUE}, reload : {TRUE}, seek : {"set_pos"}]

SeekOracles ==
    IF mixer.init /\ ui.playing_path # NoPath
    THEN [seek : SeekOutcomes]
    ELSE [seek : {"fail"}]

TrackEndOracles(force_next) ==
    IF ui.play_mode = "loop" /\ ~force_next
    THEN [load : {TRUE}, restart : LoadOutcomes]
    ELSE PlayOracles

\* ---------------------------------------------------------------- main-thread events
\* Play button, or a double click in the song view (on_double_click): the
\* selected row of the visible list, or else the selected playlist track
play_selected ==
    /\ \E p \in Range(mp3_paths) \cup Range(PlaylistTracks), o \in PlayOracles :
          Commit(_play_path(World, p, FALSE, o), "play_selected")
    /\ UNCHANGED <<now, runner, all_mp3_paths, mp3_paths, search, disk, lib, scans>>

TogglePause ==
    /\ \E o \in ToggleOracles : Commit(toggle_pause(World, o), "toggle_pause")
    /\ UNCHANGED <<now, runner, all_mp3_paths, mp3_paths, search, disk, lib, scans>>

\* a click at fraction target/total of the progress bar
ProgressClick ==
    /\ \E target \in 0..MaxTotal, o \in SeekOracles :
          /\ target <= Duration(ui.playing_path)
          /\ Commit(on_progress_click(World, target, o), "on_progress_click")
    /\ UNCHANGED <<now, runner, all_mp3_paths, mp3_paths, search, disk, lib, scans>>

\* the runner sits in its wait loop on a track the mixer holds, playing or paused
RunnerWaitsOnTrack ==
    /\ ui.playlist_runner_active
    /\ tkq.starts = <<>>
    /\ mixer.st \in {"playing", "paused"}
    /\ \E r \in DOMAIN runner :
          /\ runner[r].pc \in {"poll", "poll2"}
          /\ mixer.track = runner[r].order[runner[r].idx]

\* hist.skip_live records that a request made in such a state is still pending
SkipTrack ==
    /\ \E pick \in Picks(World, TRUE), o \in TrackEndOracles(TRUE) :
          Commit([skip_track(World, pick, o) EXCEPT
                     !.hist.skip_live = @ \/ RunnerWaitsOnTrack], "skip_track")
    /\ UNCHANGED <<now, runner, all_mp3_paths, mp3_paths, search, disk, lib, scans>>

\* the Mode button; line 2261 persists the mode with _save_cache
CyclePlayMode ==
    /\ Commit(cycle_play_mode(World), "cycle_play_mode")
    /\ disk' = [disk EXCEPT !.cache = _save_cache]
    /\ UNCHANGED <<now, runner, all_mp3_paths, mp3_paths, search, lib, scans>>

refresh_list ==
    /\ \E q \in Queries :
          /\ search' = q
          /\ mp3_paths' = Visible(q)
          /\ lib' = [lib EXCEPT !.song_view = Visible(q)]
    /\ hist' = [World.hist EXCEPT !.op = "refresh_list"]
    /\ UNCHANGED <<ui, mixer, tkq, now, runner, all_mp3_paths, disk, scans>>

\* the poll timer after(500, update_progress) fires
UpdateProgressTimer ==
    /\ ui.progress_after_id
    /\ Commit(update_progress([World EXCEPT !.ui.progress_after_id = FALSE]),
              "update_progress")
    /\ UNCHANGED <<now, runner, all_mp3_paths, mp3_paths, search, disk, lib, scans>>

\* a deferred after(100, _on_track_end) fires; hist.detected is the track whose
\* end update_progress had detected when it deferred the callback
TrackEndTimer ==
    /\ tkq.track_end > 0
    /\ \E pick \in Picks(World, FALSE), o \in TrackEndOracles(FALSE) :
          Commit(_on_track_end([World EXCEPT !.tkq.track_end = @ - 1,
                                             !.hist.detected = NoPath],
                               FALSE, pick, o),
                 "_on_track_end")
    /\ UNCHANGED <<now, runner, all_mp3_paths, mp3_paths, search, disk, lib, scans>>

\* a queued after(0, _start_on_main) of the runner fires
_start_on_main ==
    /\ tkq.starts # <<>>
    /\ \E o \in PlayOracles :
          Commit(_play_path([World EXCEPT !.tkq.starts = Tail(@)], Head(tkq.starts),
                            TRUE, o), "_start_on_main")
    /\ UNCHANGED <<now, runner, all_mp3_paths, mp3_paths, search, disk, lib, scans>>

_on_play_playlist ==
    /\ PlaylistTracks # <<>>
    /\ \E r \in DOMAIN runner :
          /\ runner[r].pc = "dead"
          /\ _play_playlist_tracks(r, 0)
    /\ hist' = [World.hist EXCEPT !.op = "_on_play_playlist"]
    /\ UNCHANGED <<ui, mixer, tkq, now, all_mp3_paths, mp3_paths, search, disk, lib, scans>>

_on_playlist_track_double_click ==
    /\ \E r \in DOMAIN runner, idx \in 1..Len(PlaylistTracks) :
          /\ runner[r].pc = "dead"
          /\ _play_playlist_tracks(r, idx)
    /\ ui' = [ui EXCEPT !.playlist_cancelled = TRUE]
    /\ hist' = [World.hist EXCEPT !.op = "_on_playlist_track_double_click"]
    /\ UNCHANGED <<mixer, tkq, now, all_mp3_paths, mp3_paths, search, disk, lib, scans>>

\* ---------------------------------------------------------------- runner thread steps
\* lines 843-880: the thread starts
RunnerBegin(r) ==
    /\ runner[r].pc = "begin"
    /\ ui' = [ui EXCEPT !.playlist_runner_active = TRUE, !.playlist_cancelled = FALSE]
    /\ \E order \in make_order(PlaylistTracks, runner[r].start_index, TRUE, ui.play_mode) :
          runner' = [runner EXCEPT ![r].pc = "loop", ![r].order = order, ![r].idx = 1,
                                   ![r].start_index = 0]
    /\ hist' = [World.hist EXCEPT !.op = "_runner"]
    /\ UNCHANGED <<mixer, tkq, now, all_mp3_paths, mp3_paths, search, disk, lib, scans>>

\* lines 881-894 and 921-924: the loop heads; the next track is handed to the main
\* thread with after(0, _start_on_main)
RunnerNext(r) ==
    /\ runner[r].pc = "loop"
    /\ IF ui.playlist_cancelled
       THEN /\ runner' = [runner EXCEPT ![r].pc = "end"]
            /\ UNCHANGED tkq
       ELSE IF runner[r].idx > Len(runner[r].order)
       THEN /\ \E order \in make_order(PlaylistTracks, 0, FALSE, ui.play_mode) :
                  runner' = [runner EXCEPT ![r].order = order, ![r].idx = 1]
            /\ UNCHANGED tkq
       ELSE /\ Len(tkq.starts) < MaxStarts
            /\ tkq' = [tkq EXCEPT !.starts = Append(@, runner[r].order[runner[r].idx])]
            /\ runner' = [runner EXCEPT ![r].pc = "poll"]
    /\ hist' = [World.hist EXCEPT !.op = "_runner"]
    /\ UNCHANGED <<ui, mixer, now, all_mp3_paths, mp3_paths, search, disk, lib, scans>>

\* lines 895-907: started.wait() has returned because _start_on_main ran (the
\* main thread is never held up for the two seconds of its timeout); an iteration
\* of the wait loop reads the skip flag
RunnerPoll(r) ==
    /\ runner[r].pc = "poll"
    /\ tkq.starts = <<>>
    /\ LET p == runner[r].order[runner[r].idx]
       IN  IF ui.playlist_skip_requested
           THEN /\ ui' = [ui EXCEPT !.playlist_skip_requested = FALSE]
                /\ mixer' = audio_stop(World).mixer
                /\ hist' = [audio_stop(World).hist EXCEPT !.op = "_runner",
                                                          !.skip_live = FALSE,
                                                          !.skip_fresh = FALSE]
                /\ runner' = [runner EXCEPT ![r].last_started = p, ![r].pc = "loop",
                                            ![r].idx = @ + 1]
           ELSE /\ runner' = [runner EXCEPT ![r].last_started = p, ![r].pc = "poll2"]
                /\ hist' = [World.hist EXCEPT !.op = "_runner"]
                /\ UNCHANGED <<ui, mixer>>
    /\ UNCHANGED <<tkq, now, all_mp3_paths, mp3_paths, search, disk, lib, scans>>

\* lines 908-916: the rest of the iteration, after the skip flag was read as unset
RunnerWait(r) ==
    /\ runner[r].pc = "poll2"
    /\ LET waiting == [runner EXCEPT ![r].pc = "poll"]
           advance == [runner EXCEPT ![r].pc = "loop", ![r].idx = @ + 1]
       IN  runner' = IF ui.playlist_cancelled THEN advance
                     ELSE IF ui.paused THEN waiting
                     ELSE IF ~is_busy(World) THEN advance
                     ELSE waiting
    /\ hist' = [World.hist EXCEPT !.op = "_runner"]
    /\ UNCHANGED <<ui, mixer, tkq, now, all_mp3_paths, mp3_paths, search, disk, lib, scans>>

\* lines 925-934: the thread ends
RunnerEnd(r) ==
    /\ runner[r].pc = "end"
    /\ LET w1 == [World EXCEPT !.ui.playlist_runner_active = FALSE]
           w2 == IF ~ui.playlist_cancelled
                    /\ (runner[r].last_started = NoPath
                        \/ ui.playing_path = runner[r].last_started)
                 THEN [end_session(w1) EXCEPT !.ui.playing_path = NoPath]
                 ELSE w1
       IN  /\ ui' = w2.ui
           /\ hist' = [w2.hist EXCEPT !.op = "_runner"]
    /\ runner' = [runner EXCEPT ![r] = DeadRunner]
    /\ UNCHANGED <<mixer, tkq, now, all_mp3_paths, mp3_paths, search, disk, lib, scans>>

\* ---------------------------------------------------------------- environment
\* the mixer reaches the end of the file
TrackEnds ==
    /\ mixer.st = "playing"
    /\ mixer' = [mixer EXCEPT !.st = "idle"]
    /\ hist' = [World.hist EXCEPT !.op = "track_ends", !.natural = TRUE]
    /\ UNCHANGED <<ui, tkq, now, runner, all_mp3_paths, mp3_paths, search, disk, lib, scans>>

\* the wall clock advances; the ideal stopwatch runs with it while the session
\* is armed and not paused
Tick ==
    /\ now < Epoch + MaxTime
    /\ now' = now + 1
    /\ hist' = [World.hist EXCEPT !.op = "tick",
                                  !.listened =
                    IF ui.playing_path # NoPath /\ ui.start_time # None /\ ~ui.paused
                    THEN @ + 1 ELSE @]
    /\ UNCHANGED <<ui, mixer, tkq, runner, all_mp3_paths, mp3_paths, search, disk, lib, scans>>

\* ---------------------------------------------------------------- scanning
Playback == <<ui, mixer, tkq, now, runner>>

\* threading.Thread(target=self.scan_and_populate).start()
StartScan ==
    /\ lib.started < MaxScans
    /\ \E r \in 1..NScans :
          /\ scans.worker[r].pc = "dead"
          /\ \A q \in 1..(r - 1) : scans.worker[q].pc # "dead"
          /\ scans' = [scans EXCEPT !.worker[r] = [NoScan EXCEPT !.pc = "begin",
                                                                 !.snap = lib.read_at]]

\* Scan Now, Browse..., and the scan __init__ schedules (lines 98, 345, 1836)
scan_now ==
    /\ StartScan
    /\ lib' = [lib EXCEPT !.started = @ + 1]
    /\ hist' = [World.hist EXCEPT !.op = "scan"]
    /\ UNCHANGED <<Playback, all_mp3_paths, mp3_paths, search, disk>>

\* Return or FocusOut in the minimum-duration entry
_on_min_duration_changed ==
    /\ StartScan
    /\ \E val \in MinDurations :
          lib' = [lib EXCEPT !.min_duration = val, !.started = @ + 1]
    /\ hist' = [World.hist EXCEPT !.op = "scan"]
    /\ UNCHANGED <<Playback, all_mp3_paths, mp3_paths, search, disk>>

\* a check that takes the directory to be there
songs_dir_assumed == TRUE

\* line 1847: self.songs_dir.exists()
songs_dir_exists == disk.root

\* lines 1841-1868: the thread looks for the Songs directory
ScanBegin(r) ==
    /\ scans.worker[r].pc = "begin"
    /\ scans' = IF ~songs_dir_exists
                THEN [scans EXCEPT !.worker[r] = NoScan,
                                   !.calls = Append(@, Call("not_found", NoPath, NoMeta))]
                ELSE [scans EXCEPT !.worker[r].pc = "walk", !.worker[r].pos = 1]
    /\ hist' = [World.hist EXCEPT !.op = "scan"]
    /\ UNCHANGED <<Playback, all_mp3_paths, mp3_paths, search, disk, lib>>

\* lines 1871-1925: one folder of the walk
ScanFolder(r) ==
    /\ scans.worker[r].pc = "walk"
    /\ scans.worker[r].pos <= NPaths
    /\ LET p == scans.worker[r].pos
           f == scan_file(lib.metadata, p)
       IN  IF ~FileExists(p)
           THEN /\ scans' = [scans EXCEPT !.worker[r].pos = @ + 1]
                /\ UNCHANGED lib
           ELSE /\ lib' = [lib EXCEPT !.metadata = f.md]
                /\ scans' = [scans EXCEPT
                       !.worker[r].pos = @ + 1,
                       !.worker[r].reads[p] = IF f.read THEN disk.file[p].fp ELSE @,
                       !.calls = IF too_short(f.dur, lib.min_duration) THEN @
                                 ELSE Append(@, Call("add", p, f.meta))]
    /\ hist' = [World.hist EXCEPT !.op = "scan"]
    /\ UNCHANGED <<Playback, all_mp3_paths, mp3_paths, search, disk>>

\* line 1961: the walk is over
ScanEnd(r) ==
    /\ scans.worker[r].pc = "walk"
    /\ scans.worker[r].pos > NPaths
    /\ scans' = [scans EXCEPT
           !.worker[r] = NoScan,
           !.calls = Append(@, [Call("apply_results", NoPath, NoMeta)
                                   EXCEPT !.reads = scans.worker[r].reads])]
    /\ hist' = [World.hist EXCEPT !.op = "scan"]
    /\ UNCHANGED <<Playback, all_mp3_paths, mp3_paths, search, disk, lib>>

\* a membership test that finds nothing
never_seen(key) == FALSE

\* line 1686: `key in self._seen_paths`
already_seen(key) == key \in lib.seen

\* lines 1681-1829, on the main thread
_add_discovered_file ==
    /\ scans.calls # <<>>
    /\ Head(scans.calls).fn = "add"
    /\ LET full == Head(scans.calls).p
           meta == Head(scans.calls).meta
           ed == IF meta.dur # 0 THEN [dur |-> meta.dur, md |-> lib.metadata]
                 ELSE ensure_duration(lib.metadata, full)
       IN  IF already_seen(full)
           THEN /\ lib' = [lib EXCEPT !.metadata[full] = merge(@, meta)]
                /\ UNCHANGED <<all_mp3_paths, mp3_paths>>
           ELSE IF too_short(ed.dur, lib.min_duration)
           THEN /\ lib' = [lib EXCEPT !.metadata = ed.md]
                /\ UNCHANGED <<all_mp3_paths, mp3_paths>>
           ELSE /\ lib' = [lib EXCEPT !.seen = @ \cup {full},
                                      !.metadata = [ed.md EXCEPT ![full] = merge(@, meta)],
                                      !.song_view = IF Matches(search, full)
                                                    THEN Append(@, full) ELSE @]
                /\ all_mp3_paths' = Append(all_mp3_paths, full)
                /\ mp3_paths' = IF Matches(search, full) THEN Append(mp3_paths, full)
                                ELSE mp3_paths
    /\ scans' = [scans EXCEPT !.calls = Tail(@)]
    /\ hist' = [World.hist EXCEPT !.op = "scan"]
    /\ UNCHANGED <<Playback, search, disk>>

\* lines 1928-1959, on the main thread
apply_results ==
    /\ scans.calls # <<>>
    /\ Head(scans.calls).fn = "apply_results"
    /\ disk' = [disk EXCEPT !.cache = _save_cache]
    /\ scans' = [scans EXCEPT !.calls = Tail(@)]
    /\ lib' = [lib EXCEPT !.read_at =
                  [p \in Paths |-> IF Head(scans.calls).reads[p] # None
                                   THEN Head(scans.calls).reads[p] ELSE @[p]]]
    /\ hist' = [World.hist EXCEPT !.op = "_save_cache"]
    /\ UNCHANGED <<Playback, all_mp3_paths, mp3_paths, search>>

\* line 1849, on the main thread: the row "(Songs directory not found)", which
\* shows no path
not_found ==
    /\ scans.calls # <<>>
    /\ Head(scans.calls).fn = "not_found"
    /\ lib' = [lib EXCEPT !.notices = @ + 1, !.song_view = Append(@, NoPath)]
    /\ scans' = [scans EXCEPT !.calls = Tail(@)]
    /\ hist' = [World.hist EXCEPT !.op = "scan"]
    /\ UNCHANGED <<Playback, all_mp3_paths, mp3_paths, search, disk>>

\* lines 1437-1448: the theme checkbox
_on_theme_changed ==
    /\ disk' = [disk EXCEPT !.cache = _save_cache]
    /\ hist' = [World.hist EXCEPT !.op = "_save_cache"]
    /\ UNCHANGED <<Playback, all_mp3_paths, mp3_paths, search, lib, scans>>

\* the program is closed and started again: __init__ with _load_cache (line 394)
\* and _apply_cache_to_ui (line 402); the threads of the old process are gone
Restart ==
    /\ lib.restarts < MaxRestarts
    /\ all_mp3_paths' = _load_cache
    /\ mp3_paths' = _load_cache
    /\ search' = <<>>
    /\ lib' = [metadata |-> [p \in Paths |-> IF p \in Range(_load_cache)
                                              THEN disk.cache.meta[p] ELSE NoMeta],
               seen |-> Range(_load_cache),
               song_view |-> _load_cache,
               min_duration |-> MIN_DURATION_SECONDS,
               notices |-> 0,
               started |-> lib.started,
               restarts |-> lib.restarts + 1,
               read_at |-> lib.read_at]
    /\ scans' = NoCalls
    /\ hist' = [World.hist EXCEPT !.op = "scan"]
    /\ UNCHANGED <<Playback, disk>>

\* another program rewrites the audio file of folder p
FileTouched(p) ==
    /\ FileExists(p)
    /\ SeqSum([q \in Paths |-> disk.file[q].fp]) < MaxTouch
    /\ \E d \in FileDurations :
          disk' = [disk EXCEPT !.file[p].fp = @ + 1, !.file[p].dur = d]
    /\ hist' = [World.hist EXCEPT !.op = "scan"]
    /\ UNCHANGED <<Playback, all_mp3_paths, mp3_paths, search, lib, scans>>

\* the audio file of folder p is deleted
FileDeleted(p) ==
    /\ FileExists(p)
    /\ Cardinality({q \in Paths : ~disk.file[q].exists}) < MaxDeleted
    /\ disk' = [disk EXCEPT !.file[p].exists = FALSE]
    /\ hist' = [World.hist EXCEPT !.op = "scan"]
    /\ UNCHANGED <<Playback, all_mp3_paths, mp3_paths, search, lib, scans>>

\* the Songs directory is removed or its drive unplugged
RootRemoved ==
    /\ disk.root
    /\ disk' = [disk EXCEPT !.root = FALSE]
    /\ hist' = [World.hist EXCEPT !.op = "scan"]
    /\ UNCHANGED <<Playback, all_mp3_paths, mp3_paths, search, lib, scans>>

\* the session on the main thread, with the wall clock
Next ==
    \/ play_selected
    \/ TogglePause
    \/ ProgressClick
    \/ SkipTrack
    \/ CyclePlayMode
    \/ UpdateProgressTimer
    \/ TrackEndTimer
    \/ TrackEnds
    \/ Tick

Spec == Init /\ [][Next]_vars

\* the play-mode policy over any library and search filter, the clock standing
NextPolicy ==
    \/ play_selected
    \/ SkipTrack
    \/ CyclePlayMode
    \/ refresh_list
    \/ UpdateProgressTimer
    \/ TrackEndTimer
    \/ TrackEnds

SpecPolicy == InitPolicy /\ [][NextPolicy]_vars

\* playlist playback: the runner threads beside the main thread, the clock standing
NextPlaylist ==
    \/ play_selected
    \/ SkipTrack
    \/ CyclePlayMode
    \/ UpdateProgressTimer
    \/ TrackEndTimer
    \/ _start_on_main
    \/ _on_play_playlist
    \/ _on_playlist_track_double_click
    \/ \E r \in 1..NRunners : RunnerBegin(r)
    \/ \E r \in 1..NRunners : RunnerNext(r)
    \/ \E r \in 1..NRunners : RunnerPoll(r)
    \/ \E r \in 1..NRunners : RunnerWait(r)
    \/ \E r \in 1..NRunners : RunnerEnd(r)
    \/ TrackEnds

SpecPlaylist == Init /\ [][NextPlaylist]_vars

\* playlist playback started again and again: several runner threads beside the
\* main thread, sequential mode, the clock and the poll timer standing
NextRunners ==
    \/ SkipTrack
    \/ _start_on_main
    \/ _on_play_playlist
    \/ _on_playlist_track_double_click
    \/ \E r \in 1..MaxRunners : RunnerBegin(r)
    \/ \E r \in 1..MaxRunners : RunnerNext(r)
    \/ \E r \in 1..MaxRunners : RunnerPoll(r)
    \/ \E r \in 1..MaxRunners : RunnerWait(r)
    \/ \E r \in 1..MaxRunners : RunnerEnd(r)
    \/ TrackEnds

SpecRunners == InitRunners /\ [][NextRunners]_vars

\* a first run of the program: no cache file, an empty library, files on disk
InitScan ==
    /\ InitSession
    /\ ui.play_mode = "sequential"
    /\ mixer.init
    /\ all_mp3_paths = <<>>
    /\ mp3_paths = <<>>
    /\ disk \in [root : {TRUE}, mutagen : BOOLEAN,
                  file : [Paths -> [exists : {TRUE}, fp : {0}, dur : FileDurations]],
                  cache : {[items |-> <<>>, meta |-> [p \in Paths |-> NoMeta]]}]
    /\ lib = [metadata |-> [p \in Paths |-> NoMeta], seen |-> {},
              song_view |-> <<>>,
              min_duration |-> MIN_DURATION_SECONDS, notices |-> 0,
              started |-> 0, restarts |-> 0, read_at |-> NoReads]
    /\ scans = NoCalls

\* scans, searches and restarts over files that stay as they are
NextScan ==
    \/ refresh_list
    \/ scan_now
    \/ _on_min_duration_changed
    \/ \E r \in 1..NScans : ScanBegin(r)
    \/ \E r \in 1..NScans : ScanFolder(r)
    \/ \E r \in 1..NScans : ScanEnd(r)
    \/ _add_discovered_file
    \/ apply_results
    \/ Restart

SpecScan == InitScan /\ [][NextScan]_vars

\* scans, saves and restarts while the files on disk change
NextCache ==
    \/ scan_now
    \/ _on_min_duration_changed
    \/ \E r \in 1..NScans : ScanBegin(r)
    \/ \E r \in 1..NScans : ScanFolder(r)
    \/ \E r \in 1..NScans : ScanEnd(r)
    \/ _add_discovered_file
    \/ apply_results
    \/ _on_theme_changed
    \/ Restart
    \/ \E p \in Paths : FileTouched(p)
    \/ \E p \in Paths : FileDeleted(p)

SpecCache == InitScan /\ [][NextCache]_vars

\* scans and restarts while the Songs directory may go away
NextRoot ==
    \/ scan_now
    \/ _on_min_duration_changed
    \/ \E r \in 1..NScans : ScanBegin(r)
    \/ \E r \in 1..NScans : ScanFolder(r)
    \/ \E r \in 1..NScans : ScanEnd(r)
    \/ _add_discovered_file
    \/ apply_results
    \/ not_found
    \/ Restart
    \/ RootRemoved

SpecRoot == InitScan /\ [][NextRoot]_vars

\* ---------------------------------------------------------------- claims
\* the state of the PlaybackSession
SessionState(u) ==
    IF u.playing_path = NoPath THEN "stopped"
    ELSE IF u.paused THEN "paused" ELSE "playing"

\* the position the manual clock gives in the current state
Elapsed == ElapsedOf(ui)

\* the handler of this step made a transport call that left a track playing
Started == hist'.called /\ mixer'.st = "playing"

\* C1: in every reachable state the session has no current path exactly when
\* playback is stopped, that is, the mixer is neither playing nor paused and the
\* manual clock is cleared
C1_NoPathIffStopped ==
    (ui.playing_path = NoPath) <=> (mixer.st = "idle" /\ ui.start_time = None)

\* C2: the session state only changes from stopped to playing by a play, between
\* playing and paused by toggle_pause, and to stopped by stop() at a track end; a
\* seek (on_progress_click -> seek_to) never changes it
C2_Transitions ==
    [][LET s == SessionState(ui)
           t == SessionState(ui')
       IN  /\ hist'.op = "on_progress_click" => t = s
           /\ t # s =>
                \/ t = "playing" /\ hist'.op \in {"play_selected", "_start_on_main",
                                                  "_on_track_end", "skip_track"}
                                 /\ Started
                \/ s = "playing" /\ t = "paused" /\ hist'.op = "toggle_pause"
                \/ s = "paused" /\ t = "playing" /\ hist'.op = "toggle_pause"
                \/ s # "stopped" /\ t = "stopped"
                                 /\ hist'.op \in {"_on_track_end", "skip_track"}]_vars

\* C3: when a track that was playing is paused and later resumed, the position of
\* the manual clock right after the resume equals its position at the pause,
\* whether the mixer's unpause worked or the handler reloaded the file and sought;
\* and right after a successful play the position is 0
C3_ResumeContinuesClock ==
    [][/\ (/\ hist'.op = "toggle_pause"
           /\ ui.playing_path # NoPath /\ ui.paused /\ mixer.st = "paused"
           /\ mixer'.st = "playing")
          => Elapsed' = Elapsed
       /\ (hist'.op \in {"play_selected", "_start_on_main"} /\ Started)
          => Elapsed' = 0]_vars

\* the fields of the PlaybackSession
SessionFields(u) ==
    <<u.playing_path, u.paused, u.start_time, u.pause_time, u.paused_offset>>

\* C4: while the session is stopped (no current path), toggle_pause, seek_to and
\* on_progress_click change no session field and no stats entry and make no
\* transport call
C4_StoppedNoOps ==
    [][ui.playing_path = NoPath =>
          /\ \A pos \in 0..MaxTotal, o \in [seek : SeekOutcomes] :
                seek_to(World, pos, o) = World
          /\ hist'.op \in {"toggle_pause", "on_progress_click"} =>
                /\ SessionFields(ui') = SessionFields(ui)
                /\ ui'.stats = ui.stats
                /\ mixer' = mixer
                /\ ~hist'.called]_vars

\* toggle_pause and on_progress_click have both been used on a stopped session
\* whose mixer is initialised and whose stats are not empty
C4_Witness ==
    /\ ui.playing_path = NoPath
    /\ mixer.init
    /\ hist.op \in {"toggle_pause", "on_progress_click"}
    /\ \E p \in Paths : ui.stats[p].play_count > 0

\* C5: whenever a handler or the playlist runner has just ended the play session
\* of a track, the clock of that session was added to the track's
\* seconds_listened exactly once, not zero times and not twice
C5_AddedOnce == hist.ended \in {None, 1}

\* C6: every step that starts playback of a path (a play by the user, the
\* sequential or shuffle advance, the loop repeat at a track end, a start by the
\* playlist runner) adds exactly 1 to that path's play_count and sets its
\* last_played to the current time; toggle_pause and on_progress_click, with their
\* fallbacks that reload the file, never change a play_count
C6_PlayCounted ==
    [][/\ (/\ hist'.op \in {"play_selected", "_start_on_main", "_on_track_end",
                            "skip_track"}
           /\ Started)
          => /\ ui'.stats[mixer'.track].play_count
                    = ui.stats[mixer'.track].play_count + 1
             /\ ui'.stats[mixer'.track].last_played = now
             /\ \A p \in Paths \ {mixer'.track} :
                    ui'.stats[p].play_count = ui.stats[p].play_count
       /\ hist'.op \in {"toggle_pause", "on_progress_click"}
          => \A p \in Paths : ui'.stats[p].play_count = ui.stats[p].play_count]_vars

\* C7: no amount added to a seconds_listened exceeds what an ideal stopwatch of
\* the session shows, one that stands still while the session is paused
C7_NoPausedTime == ~hist.over

\* C8: in loop mode, when the current track has ended naturally, the track the
\* end-of-track handling starts next is the current path again, both for a track
\* of the main list (_on_track_end) and for a track the playlist runner started
\* last and now replaces (_start_on_main)
C8_LoopRepeats ==
    [][(/\ ui.play_mode = "loop"
        /\ hist.natural
        /\ ui.playing_path # NoPath
        /\ \/ hist'.op = "_on_track_end"
           \/ /\ hist'.op = "_start_on_main"
              /\ \E r \in 1..NRunners : runner[r].last_started = ui.playing_path
        /\ Started)
       => /\ mixer'.track = ui.playing_path
          /\ ui'.playing_path = ui.playing_path]_vars

\* a deferred _on_track_end runs in sequential mode on a current path
SequentialEnd ==
    hist'.op = "_on_track_end" /\ ui.play_mode = "sequential" /\ ui.playing_path # NoPath

\* the session is stopped, with no current path
SessionStopped ==
    /\ ui.playing_path = NoPath /\ ~ui.paused
    /\ ui.start_time = None /\ ui.pause_time = None
    /\ mixer.st = "idle"

C10_ShuffleAvoidsRepeat ==
    [][(/\ hist'.op = "_on_track_end" /\ ui.play_mode = "shuffle"
        /\ ui.playing_path # NoPath
        /\ Started)
       => /\ mixer'.track \in Range(all_mp3_paths)
          /\ ui'.playing_path = mixer'.track
          /\ Len(all_mp3_paths) >= 2 => mixer'.track # ui.playing_path
          /\ Len(all_mp3_paths) = 1 => mixer'.track = all_mp3_paths[1]]_vars

\* a track end in shuffle mode has started a track of a library of two or more
C10_Witness ==
    /\ hist.op = "_on_track_end" /\ ui.play_mode = "shuffle"
    /\ hist.called /\ mixer.st = "playing"
    /\ Len(all_mp3_paths) >= 2

\* C18: a seek to a position beyond the known duration of the current track
\* leaves the manual clock at the duration, never beyond it; and in every state
\* the position of a track with known duration lies within [0, duration]
C18_ElapsedWithinTotal ==
    (ui.playing_path # NoPath /\ Duration(ui.playing_path) # 0) =>
        /\ \A pos \in (Duration(ui.playing_path) + 1)..(MaxTotal + MaxTime),
              o \in [seek : SeekOutcomes] :
                LET w == seek_to(World, pos, o)
                IN  /\ ElapsedOf(w.ui) <= Duration(ui.playing_path)
                    /\ w.ui.start_time # None
                       => ElapsedOf(w.ui) = Duration(ui.playing_path)
        /\ 0 <= Elapsed /\ Elapsed <= Duration(ui.playing_path)

\* C17: while a skip request made on a waiting runner is pending, the runner's
\* next poll iteration stops the mixer, consumes the request and moves on by
\* exactly one track; the runner never moves on and leaves the request pending
\* (only the iteration that had read the flag before the request may pass, and
\* then without moving on)
C17_SkipAdvancesOnce ==
    [][\A r \in 1..NRunners :
          (/\ hist.skip_live
           /\ runner[r].pc \in {"poll", "poll2"}
           /\ runner'[r] # runner[r])
          => IF runner'[r].pc = "loop"
             THEN /\ runner'[r].idx = runner[r].idx + 1
                  /\ ~ui'.playlist_skip_requested
                  /\ mixer'.st = "idle"
             ELSE runner[r].pc = "poll2" /\ runner'[r].pc = "poll"]_vars

\* C20: once cancellation is requested while a runner is in its loop, no queued
\* start of the runner plays a track, no runner step calls the backend, and the
\* runner leaves its wait loop in the iteration under way and then ends
C20_CancelStopsRunner ==
    [][\A r \in 1..NRunners :
          (ui.playlist_cancelled /\ runner[r].pc \in {"loop", "poll", "poll2"})
          => /\ hist'.op = "_start_on_main" => ~hist'.called
             /\ hist'.op = "_runner" => ~hist'.called
             /\ runner'[r] # runner[r]
                => CASE runner[r].pc = "loop" -> runner'[r].pc = "end"
                     [] runner[r].pc = "poll" -> runner'[r].pc \in {"poll2", "loop"}
                     [] runner[r].pc = "poll2" -> runner'[r].pc = "loop"]_vars

NoDuplicates(s) == \A i, j \in 1..Len(s) : s[i] = s[j] => i = j

\* the callback at the head of the Tk queue runs in this step
Runs(fn) ==
    /\ scans.calls # <<>>
    /\ Head(scans.calls).fn = fn
    /\ scans'.calls = Tail(scans.calls)
    /\ lib'.restarts = lib.restarts

\* C11: no path is twice in the library list or in the visible list, whatever
\* scans have run and overlapped; _add_discovered_file for a path already seen
\* changes nothing but the metadata of that path, which it merges
C11_NoDuplicatePaths ==
    /\ [](NoDuplicates(all_mp3_paths) /\ NoDuplicates(mp3_paths))
    /\ [][(Runs("add") /\ Head(scans.calls).p \in lib.seen)
          => /\ UNCHANGED <<all_mp3_paths, mp3_paths, disk>>
             /\ lib' = [lib EXCEPT !.metadata[Head(scans.calls).p] =
                                       merge(@, Head(scans.calls).meta)]]_vars

\* two scans are walking at once, and a path that is in the library already
\* was found again and waits in the Tk queue
C11_Witness ==
    /\ \E i \in 1..Len(scans.calls) :
          /\ scans.calls[i].fn = "add"
          /\ scans.calls[i].p \in lib.seen
          /\ scans.calls[i].p \in Range(all_mp3_paths)
    /\ \A r \in 1..NScans : scans.worker[r].pc = "walk"

\* scan thread r handles the audio file of the folder it stands at in this step
Selects(r) ==
    /\ scans.worker[r].pc = "walk"
    /\ scans.worker[r].pos <= NPaths
    /\ FileExists(scans.worker[r].pos)
    /\ scans'.worker[r].pc = "walk"
    /\ scans'.worker[r].pos = scans.worker[r].pos + 1

\* the duration _add_discovered_file works with for the call at the head of the queue
AddDuration ==
    IF Head(scans.calls).meta.dur # 0 THEN Head(scans.calls).meta.dur
    ELSE ensure_duration(lib.metadata, Head(scans.calls).p).dur

ScansCompleted ==
    /\ \A r \in 1..NScans : scans.worker[r].pc = "dead"
    /\ scans.calls = <<>>

\* C13: once the rescan a change of min_duration triggered has completed, no
\* track whose known duration is below min_duration is in the visible list
C13_RescanRemovesShort ==
    ScansCompleted =>
        \A i \in 1..Len(mp3_paths) :
            ~(/\ lib.metadata[mp3_paths[i]].dur # 0
              /\ lib.metadata[mp3_paths[i]].dur < lib.min_duration)

\* C14: a scan never invokes the Metadata Reader for a file that a scan completed
\* before it was started had read at the fingerprint the file still has
C14_NoSecondRead ==
    [][\A r \in 1..NScans :
          (Selects(r) /\ scan_file(lib.metadata, scans.worker[r].pos).read)
          => scans.worker[r].snap[scans.worker[r].pos]
                 # disk.file[scans.worker[r].pos].fp]_vars

\* C15: a scan that selects a file whose fingerprint differs from the one in its
\* stored entry invokes the Metadata Reader for it; and when a scan that read a
\* file completes, the entry stored for the file, if there is one, carries the
\* fingerprint the scan read at, as long as the file still has it
C15_RereadStoresFingerprint ==
    [][/\ \A r \in 1..NScans :
             (/\ Selects(r)
              /\ lib.metadata[scans.worker[r].pos].has
              /\ lib.metadata[scans.worker[r].pos].fp # disk.file[scans.worker[r].pos].fp)
             => scans'.worker[r].reads[scans.worker[r].pos]
                    = disk.file[scans.worker[r].pos].fp
       /\ Runs("apply_results")
          => \A p \in Paths :
                (/\ Head(scans.calls).reads[p] # None
                 /\ FileExists(p)
                 /\ disk.file[p].fp = Head(scans.calls).reads[p]
                 /\ lib.metadata[p].has)
                => lib.metadata[p].fp = disk.file[p].fp]_vars

\* C16: a start of the program loads from the cache file exactly the entries
\* whose file exists; and whenever _save_cache has written the cache file, every
\* entry in it is for a file that exists
C16_NoMissingPathsInCache ==
    [][/\ lib'.restarts # lib.restarts
          => /\ \A i \in 1..Len(all_mp3_paths') : FileExists(all_mp3_paths'[i])
             /\ \A i \in 1..Len(disk.cache.items) :
                   FileExists(disk.cache.items[i])
                   => disk.cache.items[i] \in Range(all_mp3_paths')
       /\ hist'.op = "_save_cache"
          => \A i \in 1..Len(disk'.cache.items) :
                disk'.root /\ disk'.file[disk'.cache.items[i]].exists]_vars

\* C19: a scan that finds no Songs directory ends at once and queues one
\* not-found notice and nothing else; neither it nor the notice touches the
\* library list, the visible list, the metadata or the cache file; the notice
\* adds one row
C19_MissingRootAborts ==
    [][/\ \A r \in 1..NScans :
             (/\ scans.worker[r].pc = "begin"
              /\ scans'.worker[r].pc # "begin"
              /\ lib'.restarts = lib.restarts
              /\ ~disk.root)
             => /\ scans' = [scans EXCEPT
                               !.worker[r] = NoScan,
                               !.calls = Append(@, Call("not_found", NoPath, NoMeta))]
                /\ UNCHANGED <<all_mp3_paths, mp3_paths, lib, disk>>
       /\ Runs("not_found")
          => /\ lib' = [lib EXCEPT !.notices = @ + 1, !.song_view = Append(@, NoPath)]
             /\ UNCHANGED <<all_mp3_paths, mp3_paths, disk>>]_vars

\* the Songs directory is gone, a scan has run into that, and its notice is shown
C19_Witness ==
    /\ ~disk.root
    /\ lib.notices > 0
    /\ ScansCompleted

\* C21: at most one scan_and_populate thread is alive at any time
C21_OneScanAtATime ==
    Cardinality({r \in 1..NScans : scans.worker[r].pc # "dead"}) <= 1

\* scan thread r takes a step
ScanThreadSteps(r) ==
    /\ scans.worker[r].pc \in {"begin", "walk"}
    /\ scans'.worker[r] # scans.worker[r]
    /\ lib'.restarts = lib.restarts

\* C22: no step of a scan thread changes _metadata, _seen_paths, the library
\* list or the visible list
C22_ScanThreadWritesNothing ==
    [][\A r \in 1..NScans :
          ScanThreadSteps(r)
          => /\ lib'.metadata = lib.metadata
             /\ lib'.seen = lib.seen
             /\ UNCHANGED <<all_mp3_paths, mp3_paths>>]_vars

\* C23: while the session is paused, neither the progress poller nor a deferred
\* _on_track_end changes what the mixer does, the playing path, the statistics
\* or the paused flag, and the poller defers no end-of-track callback
C23_PausedTrackNeverEnds ==
    [][(ui.paused /\ ui.playing_path # NoPath
          /\ hist'.op \in {"update_progress", "_on_track_end"})
       => /\ mixer' = mixer
          /\ ui'.playing_path = ui.playing_path
          /\ ui'.stats = ui.stats
          /\ ui'.paused
          /\ tkq'.track_end <= tkq.track_end]_vars

\* C24: a deferred _on_track_end that fires while the user plays another track
\* than the one whose end was detected leaves that track playing: the mixer, the
\* playing path and the statistics stay as they are
C24_TrackEndSparesUserTrack ==
    [][(/\ hist'.op = "_on_track_end"
        /\ hist.detected # NoPath
        /\ ui.playing_path # NoPath
        /\ ui.playing_path # hist.detected
        /\ mixer.st = "playing"
        /\ mixer.track = ui.playing_path)
       => /\ mixer' = mixer
          /\ ui'.playing_path = ui.playing_path
          /\ ui'.stats = ui.stats]_vars

\* a runner thread that is in its loop
InLoop(r) == runner[r].pc \in {"loop", "poll", "poll2"}

\* C25: no two runner threads are in their loops unless cancellation is under
\* way, and _playlist_runner_active is set while an uncancelled runner is in its
\* loop and only while some runner thread is past its first statement
C25_OneLiveRunner ==
    /\ ui.playlist_cancelled
       \/ Cardinality({r \in DOMAIN runner : InLoop(r)}) <= 1
    /\ (~ui.playlist_cancelled /\ \E r \in DOMAIN runner : InLoop(r))
       => ui.playlist_runner_active
    /\ ui.playlist_runner_active
       => \E r \in DOMAIN runner : runner[r].pc \notin {"dead", "begin"}

\* runner r consumes the skip request: it clears the flag, stops the mixer and
\* moves on
ConsumesSkip(r) ==
    /\ runner[r].pc = "poll"
    /\ ui.playlist_skip_requested
    /\ runner'[r].pc = "loop"

\* C26: a runner consumes a skip request only while the track that was current
\* when skip_track was called is still the current one: no track was started,
\* by the user or by a runner, since the request
C26_SkipHitsItsTrack ==
    [][\A r \in 1..NRunners : ConsumesSkip(r) => hist.skip_fresh]_vars

\* C27: a play_selected whose load_and_play fails leaves the mixer, the playing
\* path, the clock of the session, the paused flag and the statistics as they were
C27_FailedPlayChangesNothing ==
    [][(hist'.op = "play_selected" /\ mixer'.st # "playing")
       => /\ mixer' = mixer
          /\ ui'.playing_path = ui.playing_path
          /\ ui'.start_time = ui.start_time
          /\ ui'.pause_time = ui.pause_time
          /\ ui'.paused_offset = ui.paused_offset
          /\ ui'.paused = ui.paused
          /\ ui'.stats = ui.stats]_vars

\* C28: the rows of the song view are the entries of mp3_paths, one for one and
\* in the same order
C28_RowsAreVisiblePaths ==
    lib.song_view = mp3_paths

\* C29: a record stored under the fingerprint the file has now holds no duration
\* of an earlier version of the file: its duration is unknown or the one the
\* file has now
C29_NoStaleDuration ==
    \A p \in Paths :
        (/\ FileExists(p)
         /\ lib.metadata[p].has
         /\ lib.metadata[p].fp = disk.file[p].fp)
        => lib.metadata[p].dur \in {0, disk.file[p].dur}

\* every entry of the playlist once
IsCycle(order) ==
    /\ Len(order) = Len(PlaylistTracks)
    /\ \A i \in 1..Len(PlaylistTracks) :
          Cardinality({j \in 1..Len(order) : order[j] = PlaylistTracks[i]}) = 1

\* the playlist from entry start on, then its entries before start
Rotation(start) ==
    [i \in 1..Len(PlaylistTracks) |->
        PlaylistTracks[((start - 1 + i - 1) % Len(PlaylistTracks)) + 1]]

\* C30: a runner goes through every cycle entry by entry: the order of a cycle
\* holds every entry once; the first is the rotation from start_index in
\* sequential mode and begins with the entry at start_index in shuffle mode,
\* a later one is the stored order in sequential mode; the runner hands the
\* entry at its index to the main thread, which plays that entry, moves on by
\* one when it leaves its wait loop, and begins a new cycle only past the last
C30_CyclePlaysEachOnce ==
    [][/\ \A r \in 1..NRunners :
             LET a == runner[r]
                 b == runner'[r]
             IN  /\ (a.pc = "begin" /\ b.pc = "loop")
                    => /\ IsCycle(b.order)
                       /\ b.idx = 1
                       /\ a.start_index # 0 => b.order[1] = PlaylistTracks[a.start_index]
                       /\ ui.play_mode # "shuffle"
                          => b.order = Rotation(IF a.start_index = 0 THEN 1
                                                ELSE a.start_index)
                 /\ (a.pc = "loop" /\ b.pc = "loop" /\ b # a)
                    => /\ a.idx = Len(a.order) + 1
                       /\ IsCycle(b.order)
                       /\ b.idx = 1
                       /\ ui.play_mode # "shuffle" => b.order = PlaylistTracks
                 /\ (a.pc = "loop" /\ b.pc = "poll")
                    => /\ a.idx \in 1..Len(a.order)
                       /\ tkq'.starts = Append(tkq.starts, a.order[a.idx])
                       /\ b.idx = a.idx /\ b.order = a.order
                 /\ (a.pc \in {"poll", "poll2"} /\ b.pc = "loop")
                    => b.idx = a.idx + 1 /\ b.order = a.order
                 /\ (a.pc \in {"poll", "poll2"} /\ b.pc \in {"poll", "poll2"})
                    => b.idx = a.idx /\ b.order = a.order
                 /\ (a.pc = "loop" /\ b.pc = "end") => ui.playlist_cancelled
       /\ (hist'.op = "_start_on_main" /\ mixer'.st = "playing")
          => mixer'.track = Head(tkq.starts)]_vars

\* a runner started at the second entry is at the last entry of its first cycle,
\* the rotation, and that entry plays
C30_Witness ==
    \E r \in 1..NRunners :
        /\ runner[r].pc \in {"poll", "poll2"}
        /\ ui.play_mode = "sequential"
        /\ ~ui.playlist_cancelled
        /\ runner[r].order = Rotation(2)
        /\ runner[r].order # PlaylistTracks
        /\ runner[r].idx = Len(runner[r].order)
        /\ mixer.st = "playing"
        /\ mixer.track = runner[r].order[runner[r].idx]

====
